---- MODULE Spec2Model ----
(***************************************************************************)
(* Model of agentpriv: the policy resolver (_resolve_policy), the call     *)
(* interceptor (guard and the wrappers it builds), the batch helper        *)
(* (guard_all) and the default approval prompt (ask_human).                *)
(*                                                                         *)
(* Python strings that the code inspects character by character (function  *)
(* names and glob patterns) are sequences of one-character strings.        *)
(* A Python call outcome is a record: kind "return" with a value, or kind  *)
(* "raise" with the exception type and its argument.                       *)
(***************************************************************************)
EXTENDS Integers, Sequences, FiniteSets, TLC

VARIABLES
    name,     \* SpecResolve: the name handed to _resolve_policy
    api,      \* which public function is called: "guard" or "guard_all"
    fns,      \* the operations handed to it (guard: exactly one)
    policy,   \* the policy argument (a str, a dict, or None)
    on_deny,  \* guard's on_deny argument
    result,   \* outcome of the call under study, kind "none" before it is made
    tasks,    \* the calls made to the wrappers, one record per caller
    running   \* the caller that holds the thread, 0 when none does

vars == <<name, api, fns, policy, on_deny, result, tasks, running>>

\* ---------------------------------------------------------------- bounds
MaxNameLen == 2
MaxEntries == 2
MaxPatChars == 3
MaxGuardPatChars == 1
MaxFns   == 2
MaxCalls == 2
MaxArg   == 2

NameChars    == {"a", "b"}
PatternChars == {"a", "*", "?"}

RECURSIVE StringsUpTo(_, _)
StringsUpTo(chars, n) ==
    IF n = 0 THEN {<<>>}
    ELSE LET shorter == StringsUpTo(chars, n - 1)
         IN  shorter \cup {Append(s, c) : s \in shorter, c \in chars}

\* a function's __name__ is a non-empty identifier
Names == StringsUpTo(NameChars, MaxNameLen) \ {<<>>}

\* ------------------------------------------------------- Python outcomes
\* value and arg are always tuples
NoResult    == [kind |-> "none", value |-> <<>>, exc |-> "", arg |-> <<>>]
Return(v)   == [kind |-> "return", value |-> v, exc |-> "", arg |-> <<>>]
Raise(e, a) == [kind |-> "raise", value |-> <<>>, exc |-> e, arg |-> a]

\* ------------------------------------------------------ policy arguments
VALID_POLICIES == {"allow", "deny", "ask"}
\* what a caller may write as a policy value: the valid ones and a wrong one
PolicyValues == VALID_POLICIES \cup {"yolo"}

StrPolicy(p)    == [type |-> "str", value |-> p, items |-> <<>>]
DictPolicy(its) == [type |-> "dict", value |-> "", items |-> its]
NonePolicy      == [type |-> "None", value |-> "", items |-> <<>>]

Item(pat, pol) == [pattern |-> pat, pol |-> pol]

\* the number of pattern characters a sequence of items holds
RECURSIVE PatChars(_)
PatChars(its) == IF its = <<>> THEN 0 ELSE Len(Head(its).pattern) + PatChars(Tail(its))

DistinctKeys(its) ==
    \A i, j \in 1..Len(its) : its[i].pattern = its[j].pattern => i = j

\* the items of length Len(s) + 1 that extend an item sequence s of S
\* holding exactly used pattern characters, within the budget
ExtendUsing(S, budget, used) ==
    {d \in {Append(s, Item(pat, pol)) :
               s \in {q \in S : PatChars(q) = used},
               pat \in StringsUpTo(PatternChars, budget - used),
               pol \in PolicyValues} : DistinctKeys(d)}

RECURSIVE ExtendFrom(_, _, _)
ExtendFrom(S, budget, used) ==
    IF used > budget THEN {}
    ELSE ExtendUsing(S, budget, used) \cup ExtendFrom(S, budget, used + 1)

\* dict.items(): insertion-ordered pairs, keys pairwise distinct; here the
\* n-item ones whose patterns hold at most budget characters in all
RECURSIVE DictsOfLen(_, _)
DictsOfLen(n, budget) ==
    IF n = 0 THEN {<<>>}
    ELSE ExtendFrom(DictsOfLen(n - 1, budget), budget, 0)

RECURSIVE Dicts(_, _)
Dicts(n, budget) ==
    IF n = 0 THEN {<<>>}
    ELSE Dicts(n - 1, budget) \cup DictsOfLen(n, budget)

\* ------------------------------------------------------------- fnmatch
\* fnmatch.fnmatch on a case-sensitive platform, for patterns made of
\* literals, '*' and '?'
RECURSIVE fnmatch(_, _)
fnmatch(n, pat) ==
    IF pat = <<>> THEN n = <<>>
    ELSE IF Head(pat) = "*"
         THEN fnmatch(n, Tail(pat)) \/ (n # <<>> /\ fnmatch(Tail(n), pat))
    ELSE IF n = <<>> THEN FALSE
    ELSE (Head(pat) = "?" \/ Head(pat) = Head(n)) /\ fnmatch(Tail(n), Tail(pat))

\* str.replace(old, "") for a one-character old
str_remove(s, old) == SelectSeq(s, LAMBDA c : c # old)

specificity(pattern) == Len(str_remove(str_remove(pattern, "*"), "?"))

\* float("-inf"): below every specificity, which is a length
NegInf == -1

\* a resolver that fails open
DefaultPolicy_allow == "allow"

DefaultPolicy == "deny"

\* a loop test that lets a later pattern of equal specificity win
better_or_equal(spec, best_specificity) == spec >= best_specificity

better(spec, best_specificity) == spec > best_specificity

\* a loop that validates only the values of matching patterns
RECURSIVE resolve_loop_lazy(_, _, _, _, _)
resolve_loop_lazy(n, its, i, best_policy, best_specificity) ==
    IF i > Len(its) THEN Return(<<best_policy>>)
    ELSE LET pattern == its[i].pattern
             pol     == its[i].pol
         IN  IF ~fnmatch(n, pattern)
             THEN resolve_loop_lazy(n, its, i + 1, best_policy, best_specificity)
             ELSE IF pol \notin VALID_POLICIES
             THEN Raise("ValueError", <<"Invalid policy", pol, pattern>>)
             ELSE IF better(specificity(pattern), best_specificity)
                  THEN resolve_loop_lazy(n, its, i + 1, pol, specificity(pattern))
                  ELSE resolve_loop_lazy(n, its, i + 1, best_policy, best_specificity)

\* the for loop of _resolve_policy from item i on
RECURSIVE resolve_loop(_, _, _, _, _)
resolve_loop(n, its, i, best_policy, best_specificity) ==
    IF i > Len(its) THEN Return(<<best_policy>>)
    ELSE LET pattern == its[i].pattern
             pol     == its[i].pol
         IN  IF pol \notin VALID_POLICIES
             THEN Raise("ValueError", <<"Invalid policy", pol, pattern>>)
             ELSE IF fnmatch(n, pattern) /\ better(specificity(pattern), best_specificity)
                  THEN resolve_loop(n, its, i + 1, pol, specificity(pattern))
                  ELSE resolve_loop(n, its, i + 1, best_policy, best_specificity)

\* the returned policy is the one element of the outcome's value
_resolve_policy(n, p) ==
    IF p.type = "str"
    THEN IF p.value \notin VALID_POLICIES
         THEN Raise("ValueError", <<"Invalid policy", p.value>>)
         ELSE Return(<<p.value>>)
    ELSE IF p.type = "dict"
    THEN resolve_loop(n, p.items, 1, DefaultPolicy, NegInf)
    ELSE Raise("AttributeError", <<"items">>)

\* -------------------------------------------------------- guard, guard_all
\* an operation: its __name__ and whether it is a coroutine function
OpNames == StringsUpTo(NameChars, 1) \ {<<>>}

Ops == {[name |-> n, isAsync |-> b] : n \in OpNames, b \in BOOLEAN}

OnDenyValues == {"raise", "return", "explode"}

\* the closure guard returns: fn, resolved and on_deny are its free
\* variables, isAsync tells which of the two wrappers was built
guard(fn, p, od) ==
    IF od \notin {"raise", "return"}
    THEN Raise("ValueError", <<"Invalid on_deny", od>>)
    ELSE LET r == _resolve_policy(fn.name, p)
         IN  IF r.kind = "raise" THEN r
             ELSE Return(<<[fn |-> fn, resolved |-> r.value[1], on_deny |-> od,
                            isAsync |-> fn.isAsync]>>)

\* the list comprehension of guard_all from element i on
RECURSIVE guard_all_loop(_, _, _, _)
guard_all_loop(fs, p, i, acc) ==
    IF i > Len(fs) THEN Return(acc)
    ELSE LET g == guard(fs[i], p, "raise")
         IN  IF g.kind = "raise" THEN g
             ELSE guard_all_loop(fs, p, i + 1, Append(acc, g.value[1]))

guard_all(fs, p) ==
    LET pol == IF p.type = "None" THEN DictPolicy(<<Item(<<"*">>, "ask")>>) ELSE p
    IN  guard_all_loop(fs, pol, 1, <<>>)

\* guard's own outcome carries the wrapper as the one element of value
Wrappers == IF result.kind = "return" THEN result.value ELSE <<>>

\* --------------------------------------------------------------- ask_human
\* str.strip() and str.lower() on the characters a line is drawn from
RECURSIVE lstrip(_)
lstrip(s) == IF s # <<>> /\ Head(s) = " " THEN lstrip(Tail(s)) ELSE s

RECURSIVE rstrip(_)
rstrip(s) ==
    IF s # <<>> /\ s[Len(s)] = " " THEN rstrip(SubSeq(s, 1, Len(s) - 1)) ELSE s

strip(s) == rstrip(lstrip(s))

lower_char(c) == IF c = "Y" THEN "y" ELSE IF c = "N" THEN "n" ELSE c

lower(s) == [i \in 1..Len(s) |-> lower_char(s[i])]

\* the value ask_human returns when input() yields line
ask_human(line) == lower(strip(line)) = <<"y">>

InputLines ==
    {<<"y">>, <<"Y">>, <<" ", "y", " ">>, <<"n">>, <<"N">>, <<>>, <<"y", "y">>}

\* ------------------------------------------------------------ the wrapper
Args == 1..MaxArg   \* one value stands for a call's (args, kwargs)

\* a denial that ignores on_deny
_denied_always_raises(fn, od, reason) ==
    Raise("AgentPrivDenied", <<"Call to ", fn.name, "() denied by ", reason>>)

_denied(fn, od, reason) ==
    LET msg == <<"Call to ", fn.name, "() denied by ", reason>>
    IN  IF od = "return" THEN Return(msg) ELSE Raise("AgentPrivDenied", msg)

\* what the original operation can do when called with a
FnOutcomes(fn, a) ==
    {Return(<<"result of", fn.name, a>>), Raise("OpError", <<fn.name, a>>)}

\* a first test that lets a denied call fall through to the operation
after_check_no_deny(resolved) == IF resolved = "ask" THEN "asking" ELSE "invoke"

\* where the wrapper goes after its first test, by resolved policy
after_check(resolved) ==
    IF resolved = "deny" THEN "denied_policy"
    ELSE IF resolved = "ask" THEN "asking"
    ELSE "invoke"

\* where it goes once ask_human has returned
after_ask(approved) == IF ~approved THEN "denied_human" ELSE "invoke"

\* a prompt that is not shown the call's arguments
ask_args_dropped(fn, a) == [name |-> fn.name, args |-> 0]

\* what ask_human is called with
ask_args(fn, a) == [name |-> fn.name, args |-> a]

\* what the operation is called with
fn_args(a) == a

\* a wrapper that swallows the operation's failure
wrapper_result_caught(fn_outcome) ==
    IF fn_outcome.kind = "raise" THEN Return(<<"error", fn_outcome.exc>>) ELSE fn_outcome

\* return fn(...) / return await fn(...): the operation's outcome as it is
wrapper_result(fn_outcome) == fn_outcome

\* a wrapper that awaits between the approval and the operation
next_running_yields(t, pc) == IF pc \in {"in_fn", "done", "invoke"} THEN 0 ELSE t

\* who holds the thread after a step of caller t that leaves it at pc:
\* the wrapper gives it up only inside the awaited operation or at its end
next_running(t, pc) == IF pc \in {"in_fn", "done"} THEN 0 ELSE t

Callers == 1..MaxCalls

IdleTask ==
    [pc |-> "idle", w |-> 0, args |-> 0, asked |-> <<>>, approved |-> "unset",
     fn_calls |-> <<>>, fn_outcome |-> NoResult, outcome |-> NoResult,
     suspensions |-> 0]

W(t) == Wrappers[tasks[t].w]

Step(t, rec) ==
    /\ tasks' = [tasks EXCEPT ![t] = rec]
    /\ running' = next_running(t, rec.pc)
    /\ UNCHANGED <<name, api, fns, policy, on_deny, result>>

\* the caller calls wrapper i with argument a; calling an async def only
\* creates the coroutine
Call(t, i, a) ==
    /\ tasks[t].pc = "idle"
    /\ running = 0
    /\ i \in 1..Len(Wrappers)
    /\ LET rec == [tasks[t] EXCEPT !.w = i, !.args = a,
                      !.pc = IF Wrappers[i].isAsync THEN "created" ELSE "check"]
       IN  /\ tasks' = [tasks EXCEPT ![t] = rec]
           /\ running' = IF Wrappers[i].isAsync THEN 0 ELSE t
    /\ UNCHANGED <<name, api, fns, policy, on_deny, result>>

\* the event loop starts running the coroutine
Start(t) ==
    /\ tasks[t].pc = "created"
    /\ running = 0
    /\ Step(t, [tasks[t] EXCEPT !.pc = "check"])

\* if resolved == "deny" ... if resolved == "ask" and not ask_human(...)
CheckPolicy(t) ==
    /\ tasks[t].pc = "check"
    /\ running \in {0, t}
    /\ LET nxt == after_check(W(t).resolved)
       IN  Step(t,
             IF nxt = "denied_policy"
             THEN [tasks[t] EXCEPT !.pc = "done",
                      !.outcome = _denied(W(t).fn, W(t).on_deny, "policy")]
             ELSE IF nxt = "asking"
             THEN [tasks[t] EXCEPT !.pc = "asking",
                      !.asked = Append(@, ask_args(W(t).fn, tasks[t].args))]
             ELSE [tasks[t] EXCEPT !.pc = "invoke"])

\* input() returns line and ask_human returns
AskReturns(t, line) ==
    /\ tasks[t].pc = "asking"
    /\ running \in {0, t}
    /\ LET approved == ask_human(line)
           nxt      == after_ask(approved)
           rec      == [tasks[t] EXCEPT !.approved = IF approved THEN "yes" ELSE "no"]
       IN  Step(t,
             IF nxt = "denied_human"
             THEN [rec EXCEPT !.pc = "done",
                      !.outcome = _denied(W(t).fn, W(t).on_deny, "human")]
             ELSE [rec EXCEPT !.pc = "invoke"])

\* fn(*args, **kwargs): a plain function runs to its end; a coroutine runs
\* to its end or to its first suspension
Invoke(t, fo, suspends) ==
    /\ tasks[t].pc = "invoke"
    /\ running \in {0, t}
    /\ fo \in FnOutcomes(W(t).fn, fn_args(tasks[t].args))
    /\ suspends => W(t).isAsync
    /\ LET rec == [tasks[t] EXCEPT !.fn_calls = Append(@, fn_args(tasks[t].args))]
       IN  Step(t,
             IF suspends
             THEN [rec EXCEPT !.pc = "in_fn", !.suspensions = @ + 1]
             ELSE [rec EXCEPT !.pc = "done", !.fn_outcome = fo,
                      !.outcome = wrapper_result(fo)])

\* the suspended operation is resumed and runs to its end
Resume(t, fo) ==
    /\ tasks[t].pc = "in_fn"
    /\ running = 0
    /\ fo \in FnOutcomes(W(t).fn, tasks[t].fn_calls[Len(tasks[t].fn_calls)])
    /\ Step(t, [tasks[t] EXCEPT !.pc = "done", !.fn_outcome = fo,
                   !.outcome = wrapper_result(fo)])

AllFnOutcomes == UNION {FnOutcomes(fn, a) : fn \in Ops, a \in Args}

CallerStep(t) ==
    \/ \E i \in 1..MaxFns, a \in Args : Call(t, i, a)
    \/ Start(t)
    \/ CheckPolicy(t)
    \/ \E line \in InputLines : AskReturns(t, line)
    \/ \E fo \in AllFnOutcomes, suspends \in BOOLEAN : Invoke(t, fo, suspends)
    \/ \E fo \in AllFnOutcomes : Resume(t, fo)

\* ------------------------------------------ specification of the resolver
ResolveInputs ==
    {StrPolicy(p) : p \in PolicyValues}
        \cup {DictPolicy(its) : its \in Dicts(MaxEntries, MaxPatChars)}

InitResolve ==
    /\ policy \in ResolveInputs
    /\ name \in Names
    /\ result = NoResult
    /\ api = "_resolve_policy"
    /\ fns = <<>>
    /\ on_deny = "raise"
    /\ tasks = [t \in Callers |-> IdleTask]
    /\ running = 0

Resolve ==
    /\ api = "_resolve_policy"
    /\ result.kind = "none"
    /\ result' = _resolve_policy(name, policy)
    /\ UNCHANGED <<name, api, fns, policy, on_deny, tasks, running>>

NextResolve == Resolve

SpecResolve == InitResolve /\ [][NextResolve]_vars

\* ------------------------------- specification of guard and guard_all
RECURSIVE SeqsUpTo(_, _)
SeqsUpTo(S, n) ==
    IF n = 0 THEN {<<>>}
    ELSE LET shorter == SeqsUpTo(S, n - 1)
         IN  shorter \cup {Append(s, x) : s \in {q \in shorter : Len(q) = n - 1}, x \in S}

GuardPolicies ==
    {StrPolicy(p) : p \in PolicyValues}
        \cup {DictPolicy(its) : its \in Dicts(MaxEntries, MaxGuardPatChars)}

\* guard_all passes no on_deny, so its wrappers get guard's default
InitGuard ==
    /\ policy \in GuardPolicies \cup {NonePolicy}
    /\ name = <<>>
    /\ \/ /\ api = "guard"
          /\ policy # NonePolicy
          /\ fns \in {<<fn>> : fn \in Ops}
          /\ on_deny \in OnDenyValues
       \/ /\ api = "guard_all"
          /\ fns \in SeqsUpTo(Ops, MaxFns)
          /\ on_deny = "raise"
    /\ result = NoResult
    /\ tasks = [t \in Callers |-> IdleTask]
    /\ running = 0

Guard ==
    /\ api = "guard"
    /\ result.kind = "none"
    /\ result' = guard(fns[1], policy, on_deny)
    /\ UNCHANGED <<name, api, fns, policy, on_deny, tasks, running>>

GuardAll ==
    /\ api = "guard_all"
    /\ result.kind = "none"
    /\ result' = guard_all(fns, policy)
    /\ UNCHANGED <<name, api, fns, policy, on_deny, tasks, running>>

\* one caller uses the wrappers that were returned
NextGuard == Guard \/ GuardAll \/ CallerStep(1)

SpecGuard == InitGuard /\ [][NextGuard]_vars

\* ------------------------- specification of concurrent calls to wrappers
\* after construction: a plain and a coroutine operation of one name, each
\* wrapped by guard under the same policy and on_deny
InitCalls ==
    /\ name = <<>>
    /\ api = "guard"
    /\ \E n \in OpNames :
          fns = <<[name |-> n, isAsync |-> FALSE], [name |-> n, isAsync |-> TRUE]>>
    /\ policy \in {StrPolicy(p) : p \in VALID_POLICIES}
    /\ on_deny \in {"raise", "return"}
    /\ result = Return(<<guard(fns[1], policy, on_deny).value[1],
                         guard(fns[2], policy, on_deny).value[1]>>)
    /\ tasks = [t \in Callers |-> IdleTask]
    /\ running = 0

Next == \E t \in Callers : CallerStep(t)

Spec == InitCalls /\ [][Next]_vars

\* =================================================================
\* Properties of the resolver (checked under SpecResolve)
\* =================================================================
Items == policy.items

ValidDict ==
    /\ policy.type = "dict"
    /\ \A k \in 1..Len(Items) : Items[k].pol \in VALID_POLICIES

\* the number of characters of a pattern that are neither '*' nor '?'
LiteralCount(pat) == Cardinality({k \in 1..Len(pat) : pat[k] \notin {"*", "?"}})

HasWildcard(pat) == \E k \in 1..Len(pat) : pat[k] \in {"*", "?"}

Matching == {k \in 1..Len(Items) : fnmatch(name, Items[k].pattern)}

Resolved == api = "_resolve_policy" /\ result.kind # "none"

C4_ExactPatternWinsInAnyOrder ==
    (Resolved /\ ValidDict) =>
        \A i \in 1..Len(Items) :
            (/\ Items[i].pattern = name
             /\ \A j \in 1..Len(Items) \ {i} :
                   HasWildcard(Items[j].pattern) /\ j \in Matching)
            => result = Return(<<Items[i].pol>>)

\* =================================================================
\* Properties of guard and guard_all (checked under SpecGuard)
\* =================================================================
DenialMessage(n, reason) == <<"Call to ", n, "() denied by ", reason>>

DenialOutcome(n, od, reason) ==
    IF od = "raise" THEN Raise("AgentPrivDenied", DenialMessage(n, reason))
    ELSE Return(DenialMessage(n, reason))

NoPatternMatches(n) ==
    \A k \in 1..Len(Items) : ~fnmatch(n, Items[k].pattern)

\* C2: when no pattern of a valid mapping matches the operation's name (the
\* empty mapping included), the resolved policy is deny, and every call to
\* the wrapper built from it is denied with tag "policy" without reaching
\* the operation.
C2_NoMatchDenies ==
    (api \in {"guard", "guard_all"} /\ result.kind = "return" /\ ValidDict) =>
        \A i \in 1..Len(Wrappers) :
            NoPatternMatches(fns[i].name) =>
                /\ Wrappers[i].resolved = "deny"
                /\ \A t \in Callers :
                      tasks[t].w = i =>
                          /\ tasks[t].pc \in {"created", "check", "done"}
                          /\ tasks[t].fn_calls = <<>>
                          /\ tasks[t].asked = <<>>
                          /\ tasks[t].pc = "done" =>
                                tasks[t].outcome =
                                    DenialOutcome(fns[i].name, Wrappers[i].on_deny, "policy")

\* a call through a wrapper built from a non-empty mapping none of whose
\* patterns matches has been denied
C2_Witness ==
    /\ api = "guard_all" /\ result.kind = "return" /\ ValidDict
    /\ Len(Items) = 2
    /\ \E t \in Callers :
          /\ tasks[t].w # 0
          /\ NoPatternMatches(fns[tasks[t].w].name)
          /\ tasks[t].pc = "done"
          /\ tasks[t].outcome.exc = "AgentPrivDenied"

InvalidPolicy ==
    \/ policy.type = "str" /\ policy.value \notin VALID_POLICIES
    \/ policy.type = "dict" /\ \E k \in 1..Len(Items) : Items[k].pol \notin VALID_POLICIES

InvalidConfig == InvalidPolicy \/ on_deny \notin {"raise", "return"}

\* C5: guard fails at wrap time, returning no wrapper and calling neither
\* the operation nor the prompt, whenever the policy is an invalid value,
\* a mapping with an invalid value anywhere, or on_deny is invalid; and no
\* call to a wrapper ends in that configuration error.
C5_GuardValidatesEagerly ==
    api = "guard" =>
        /\ (result.kind # "none" /\ InvalidConfig) =>
              /\ result.kind = "raise"
              /\ result.exc = "ValueError"
              /\ Wrappers = <<>>
              /\ \A t \in Callers : tasks[t] = IdleTask
        /\ result.kind = "none" => \A t \in Callers : tasks[t] = IdleTask
        /\ \A t \in Callers :
              tasks[t].outcome.kind = "raise" => tasks[t].outcome.exc # "ValueError"

\* guard has failed on a mapping whose invalid value sits on a pattern that
\* does not match the name while another pattern matches it
C5_Witness ==
    /\ api = "guard" /\ policy.type = "dict" /\ on_deny \in {"raise", "return"}
    /\ result.kind = "raise" /\ result.exc = "ValueError"
    /\ \E k, m \in 1..Len(Items) :
          /\ Items[k].pol \notin VALID_POLICIES
          /\ ~fnmatch(fns[1].name, Items[k].pattern)
          /\ Items[m].pol \in VALID_POLICIES
          /\ fnmatch(fns[1].name, Items[m].pattern)

\* C6: guard_all fails with the invalid-policy error, returning no
\* sequence, whenever a value of the mapping is invalid, for a sequence of
\* operations of any length.
C6_GuardAllRejectsInvalidMapping ==
    (api = "guard_all" /\ result.kind # "none" /\ policy.type = "dict" /\ InvalidPolicy) =>
        result.kind = "raise" /\ result.exc = "ValueError"

\* =================================================================
\* Properties of calls to the wrappers (checked under Spec)
\* =================================================================
Called(t) == tasks[t].w # 0

Denied(t) ==
    \/ W(t).resolved = "deny"
    \/ W(t).resolved = "ask" /\ tasks[t].approved = "no"

LetThrough(t) ==
    \/ W(t).resolved = "allow"
    \/ W(t).resolved = "ask" /\ tasks[t].approved = "yes"

\* C1: in every call to a wrapper the operation is invoked at most once,
\* never when the policy is deny or the prompt refused, and never before
\* the decision for that call is final.
C1_InvokedAtMostOnceAndOnlyIfNotDenied ==
    \A t \in Callers :
        Called(t) =>
            /\ Len(tasks[t].fn_calls) <= 1
            /\ Denied(t) => tasks[t].fn_calls = <<>>
            /\ tasks[t].fn_calls # <<>> => LetThrough(t)
            /\ tasks[t].pc \in {"created", "check", "asking", "invoke"} =>
                  tasks[t].fn_calls = <<>>

\* a call to the coroutine wrapper that the prompt refused has ended
C1_Witness ==
    \E t \in Callers :
        /\ Called(t) /\ W(t).isAsync
        /\ tasks[t].pc = "done"
        /\ tasks[t].approved = "no"
        /\ tasks[t].fn_calls = <<>>

\* C7: under ask, every call invokes the prompt exactly once with the
\* operation's name and the call's own arguments, the prompt returns before
\* the operation is invoked, and the operation is invoked if and only if
\* the prompt returned true.
C7_AskedOnceBeforeInvoking ==
    \A t \in Callers :
        (Called(t) /\ W(t).resolved = "ask") =>
            /\ tasks[t].pc \in {"created", "check"} => tasks[t].asked = <<>>
            /\ tasks[t].pc \in {"asking", "invoke", "in_fn", "done"} =>
                  tasks[t].asked = <<[name |-> W(t).fn.name, args |-> tasks[t].args]>>
            /\ tasks[t].pc = "asking" =>
                  tasks[t].approved = "unset" /\ tasks[t].fn_calls = <<>>
            /\ tasks[t].fn_calls # <<>> => tasks[t].approved = "yes"
            /\ tasks[t].pc \in {"in_fn", "done"} =>
                  (Len(tasks[t].fn_calls) = 1 <=> tasks[t].approved = "yes")

\* an approved call has run the operation after asking once
C7_Witness ==
    \E t \in Callers :
        /\ Called(t) /\ W(t).resolved = "ask"
        /\ tasks[t].pc = "done"
        /\ tasks[t].approved = "yes"
        /\ tasks[t].args = MaxArg
        /\ Len(tasks[t].asked) = 1
        /\ tasks[t].fn_calls = <<MaxArg>>

IsDenial(o, reason) ==
    \/ o.kind = "raise" /\ o.exc = "AgentPrivDenied" /\ o.arg[4] = reason
    \/ o.kind = "return" /\ Len(o.value) = 4 /\ o.value[4] = reason

\* C8: a denied call ends in AgentPrivDenied with the message
\* "Call to {name}() denied by {reason}" under on_deny raise, and returns
\* that message under on_deny return; the reason is "policy" exactly under
\* deny and "human" exactly under ask with a refusing prompt, for plain and
\* coroutine operations alike.
C8_DenialSurfaces ==
    \A t \in Callers :
        (Called(t) /\ tasks[t].pc = "done") =>
            /\ W(t).resolved = "deny" =>
                  tasks[t].outcome = DenialOutcome(W(t).fn.name, W(t).on_deny, "policy")
            /\ (W(t).resolved = "ask" /\ tasks[t].approved = "no") =>
                  tasks[t].outcome = DenialOutcome(W(t).fn.name, W(t).on_deny, "human")
            /\ IsDenial(tasks[t].outcome, "policy") => W(t).resolved = "deny"
            /\ IsDenial(tasks[t].outcome, "human") =>
                  W(t).resolved = "ask" /\ tasks[t].approved = "no"

\* a refused call to the coroutine wrapper has returned the message
C8_Witness ==
    \E t \in Callers :
        /\ Called(t) /\ W(t).isAsync /\ W(t).on_deny = "return"
        /\ tasks[t].pc = "done"
        /\ tasks[t].approved = "no"
        /\ tasks[t].outcome.kind = "return"

\* C9: a call the gate lets through ends exactly as the operation called
\* once with the same arguments ends: same value or same failure, never a
\* denial made by the gate.
C9_LetThroughIsTransparent ==
    \A t \in Callers :
        (Called(t) /\ tasks[t].pc = "done" /\ LetThrough(t)) =>
            /\ tasks[t].fn_calls = <<tasks[t].args>>
            /\ tasks[t].fn_outcome \in FnOutcomes(W(t).fn, tasks[t].args)
            /\ tasks[t].outcome = tasks[t].fn_outcome
            /\ tasks[t].outcome.exc # "AgentPrivDenied"

\* an approved call whose operation failed after suspending has ended
C9_Witness ==
    \E t \in Callers :
        /\ Called(t) /\ tasks[t].pc = "done"
        /\ tasks[t].approved = "yes"
        /\ tasks[t].suspensions = 1
        /\ tasks[t].fn_outcome.kind = "raise"
        /\ tasks[t].outcome.exc = "OpError"

GatePcs == {"check", "asking", "invoke"}

GateHoldsThread ==
    /\ \A i \in 1..Len(Wrappers) : Wrappers[i].isAsync = fns[i].isAsync
    /\ \A t \in Callers :
          Called(t) =>
              /\ tasks[t].pc \in GatePcs => running = t /\ tasks[t].suspensions = 0
              /\ (tasks[t].pc = "done" /\ Denied(t)) =>
                    /\ tasks[t].suspensions = 0
                    /\ \A u \in Callers :
                          (Called(u) /\ tasks[u].pc = "done"
                              /\ tasks[u].approved = tasks[t].approved) =>
                              tasks[u].outcome = tasks[t].outcome

NoStepInsideGate ==
    \A t \in Callers :
        tasks[t].pc \in GatePcs =>
            \A u \in Callers \ {t} : tasks'[u] = tasks[u]

\* C10: the wrapper of a coroutine operation is a coroutine wrapper, and
\* the gate has no suspension point: from a call's policy test through its
\* prompt to the start of the operation or its denial no other task takes
\* a step, and a denied call ends without having suspended, with the
\* outcome the plain wrapper gives.
C10_GateHasNoSuspensionPoint == []GateHoldsThread /\ [][NoStepInsideGate]_vars

\* a coroutine call waits at the prompt while another call is suspended
\* inside its operation
C10_Witness ==
    \E t, u \in Callers :
        /\ t # u
        /\ Called(t) /\ W(t).isAsync /\ tasks[t].pc = "asking"
        /\ Called(u) /\ tasks[u].pc = "in_fn"
====
